---------------------------- MODULE Spec2Model ----------------------------
(***************************************************************************)
(* Model of the two notebooks of Jayshil/Data_analysis.                    *)
(*                                                                         *)
(*   Radio_interferometry/p1.ipynb  star formation rate -> L_FIR ->        *)
(*       L'_CO(1-0) -> observed CO frequencies -> L'_CO(3-2) -> lensed     *)
(*       luminosity -> S*dV -> S, and the H2 mass.                         *)
(*   Transits/p3.ipynb  the prior dictionary pri1 built from three         *)
(*       parallel lists before the external fit.                           *)
(*                                                                         *)
(* Numbers.  The notebook computes in IEEE doubles.  A double is modelled  *)
(* as a record [k, e]: k is its kind ("nan", "ninf", "neg", "zero", "pos", *)
(* "pinf") and, for "neg" and "pos", e is log10 of its magnitude in        *)
(* thousandths (30 is Pos(1477), 4.5e-44 is Pos(-43347)).  Products and    *)
(* quotients are then exact sums and differences of e; the special values  *)
(* follow numpy / Python.  The one value that is a logarithm itself,       *)
(* logco, is "lin": e is the number in thousandths, and the division by    *)
(* 1.13 rounds to the nearest thousandth, as the double division rounds to *)
(* the nearest double.  redshift is "lin" as well.                         *)
(*                                                                         *)
(* Runs.  A run is "Run All": the cells in order, stopping at the first    *)
(* cell that raises.  The kernel namespace ns outlives a run, so a second  *)
(* run starts on the values the first one left.  The values the user types *)
(* into the parameter assignments (sfr, kappa, redshift) are the inputs of *)
(* a run; every other literal (0.6, 4.3, 200, 4, the index 2, Planck15,    *)
(* 3.25e7) is part of the code.  caller records what the person at the     *)
(* notebook would like to use, a line of the table and a cosmology; no     *)
(* cell reads it.                                                          *)
(***************************************************************************)
EXTENDS Integers, Sequences, FiniteSets, TLC

VARIABLES
    pc,        \* radio notebook: "idle", "c1".."c9" (next cell), "done", "aborted"
    run,       \* number of runs started in this kernel
    inp,       \* literals typed into the parameter assignments for this run
    caller,    \* what the person at the notebook wants: a line, a cosmology
    cosmo,     \* the name bound by "from astropy.cosmology import ... as cosmo"
    ns,        \* kernel namespace: scalar variable name -> value
    obs_freq,  \* kernel namespace: the obs_freq array (<<>> while unbound)
    err,       \* the exception that stopped the run
    writes,    \* how often each name was assigned in the current run
    prev,      \* inputs and results of the previous run
    tpc,       \* transit notebook: position in cell 2
    data,      \* rows of normal_flux.dat as loaded into tts/fls/fles['EUL']
    idx,       \* how many tuples zip() has yielded
    cur,       \* loop variables param, dist, hyperp
    pri1       \* the prior dictionary

radioVars == <<pc, run, inp, caller, cosmo, ns, obs_freq, err, writes, prev>>
transitVars == <<tpc, data, idx, cur, pri1>>
vars == <<pc, run, inp, caller, cosmo, ns, obs_freq, err, writes, prev,
          tpc, data, idx, cur, pri1>>

---------------------------------------------------------------------------
(* Bounds *)

MaxRuns == 2
SfrSteps == 3
MaxRows == 2

---------------------------------------------------------------------------
(* Doubles *)

Pos(x) == [k |-> "pos", e |-> x]
Neg(x) == [k |-> "neg", e |-> x]
Lin(x) == [k |-> "lin", e |-> x]
Zero == [k |-> "zero", e |-> 0]
PInf == [k |-> "pinf", e |-> 0]
NInf == [k |-> "ninf", e |-> 0]
NaN == [k |-> "nan", e |-> 0]
Unbound == [k |-> "unbound", e |-> 0]

IsInf(a) == a.k \in {"pinf", "ninf"}
Sign(a) == IF a.k \in {"pos", "pinf"} THEN 1
           ELSE IF a.k \in {"neg", "ninf"} THEN -1 ELSE 0

\* a * b on doubles
Mul(a, b) ==
    IF a.k = "nan" \/ b.k = "nan" THEN NaN
    ELSE IF (IsInf(a) /\ b.k = "zero") \/ (a.k = "zero" /\ IsInf(b)) THEN NaN
    ELSE IF IsInf(a) \/ IsInf(b)
         THEN (IF Sign(a) * Sign(b) > 0 THEN PInf ELSE NInf)
    ELSE IF a.k = "zero" \/ b.k = "zero" THEN Zero
    ELSE IF Sign(a) * Sign(b) > 0 THEN Pos(a.e + b.e) ELSE Neg(a.e + b.e)

\* a / b where an operand is a numpy float64 or array: a zero divisor gives
\* inf or nan (and a RuntimeWarning), never an exception
NpDiv(a, b) ==
    IF a.k = "nan" \/ b.k = "nan" THEN NaN
    ELSE IF (a.k = "zero" /\ b.k = "zero") \/ (IsInf(a) /\ IsInf(b)) THEN NaN
    ELSE IF b.k = "zero" THEN (IF Sign(a) > 0 THEN PInf ELSE NInf)
    ELSE IF IsInf(b) \/ a.k = "zero" THEN Zero
    ELSE IF IsInf(a) THEN (IF Sign(a) * Sign(b) > 0 THEN PInf ELSE NInf)
    ELSE IF Sign(a) * Sign(b) > 0 THEN Pos(a.e - b.e) ELSE Neg(a.e - b.e)

\* a / b on two Python numbers raises ZeroDivisionError when b is zero
PyDivRaises(a, b) == b.k = "zero"

\* np.log10(a): -inf at zero, nan below zero, both with a warning only
NpLog10(a) ==
    IF a.k = "pos" THEN Lin(a.e)
    ELSE IF a.k = "zero" THEN NInf
    ELSE IF a.k = "pinf" THEN PInf
    ELSE NaN

RoundDiv(n, d) == (2 * n + d) \div (2 * d)

\* (0.53 - l) / 1.13: the relation solved with the wrong sign
LogCOFlipped(l) ==
    IF l.k = "lin" THEN Lin(RoundDiv((530 - l.e) * 1000, 1130))
    ELSE l

\* (l - 0.53) / 1.13
LogCO(l) ==
    IF l.k = "lin" THEN Lin(RoundDiv((l.e - 530) * 1000, 1130))
    ELSE l

\* 10 ** l
Pow10(l) ==
    IF l.k = "lin" THEN Pos(l.e)
    ELSE IF l.k = "ninf" THEN Zero
    ELSE l

\* 1 + z for the redshifts of the model
OnePlus(z) ==
    IF z.e = 0 THEN Pos(0)
    ELSE IF z.e = 1036 THEN Pos(309)
    ELSE Pos(602)

Cube(a) == Mul(Mul(a, a), a)

---------------------------------------------------------------------------
(* Radio notebook: literals of the code *)

\* lsun = ((con.L_sun).value)*(1e7) = 3.828e33
lsun == Pos(33583)
\* lco_diff_units*0.6
Ratio32 == Pos(-222)
\* 4.3*lco_32
Magnification == Pos(633)
\* dl*dl*(3.25e7)
SolomonConst == Pos(7512)
\* flux_s/200
VelocityDispersion == Pos(2301)
\* lco_diff_units*4
AlphaCO == Pos(602)

lines == <<"CO10", "CO21", "CO32", "C043", "CO54", "CO65", "CO75">>
rest_frame == <<Pos(2062), Pos(2363), Pos(2539), Pos(2664),
                Pos(2761), Pos(2840), Pos(2907)>>
NLines == Len(lines)

\* freq1 = obs_freq[2]: Python counts from 0, a TLA+ sequence from 1
LineIdx == 3

Cosmologies == {"Planck15", "WMAP9"}

\* cosmo.luminosity_distance(z).value in Mpc, for the redshifts of the model
LuminosityDistance(c, z) ==
    IF z.e = 0 THEN Zero
    ELSE IF c = "Planck15"
         THEN (IF z.e = 1036 THEN Pos(3851) ELSE Pos(4416))
         ELSE (IF z.e = 1036 THEN Pos(3847) ELSE Pos(4415))

---------------------------------------------------------------------------
(* Radio notebook: what a run is given *)

\* sfr = 30 and values around it, 0 and -30
SfrValues == {Neg(1477), Zero} \cup {Pos(1477 + i) : i \in 0..SfrSteps}
\* kappa = 4.5e-44, and 0
KappaValues == {Pos(-43347), Zero}
\* redshift = 1.036, and 0 and 3
RedshiftValues == {Lin(0), Lin(1036), Lin(3000)}

Inputs == [sfr : SfrValues, kappa : KappaValues, redshift : RedshiftValues]
Callers == [line : 1..NLines, cosmo : Cosmologies]

Scalars == {"sfr", "kappa", "lfir", "lsun", "lfir_sun", "logco",
            "lco_diff_units", "redshift", "lco_32", "lco_32_lens", "dl",
            "freq1", "aa", "bb", "flux_s", "flux_density", "mass_h2"}
Names == Scalars \cup {"obs_freq"}

NoErr == [cell |-> 0, name |-> "", type |-> ""]
NoInput == [sfr |-> Unbound, kappa |-> Unbound, redshift |-> Unbound]
NoPrev == [inp |-> NoInput, res |-> [n \in Scalars |-> Unbound],
           obs |-> <<>>, pc |-> "idle", err |-> NoErr]

\* what the current run has produced: the values it assigned itself
Result == [n \in Scalars |-> IF writes[n] > 0 THEN ns[n] ELSE Unbound]
ResultObs == IF writes["obs_freq"] > 0 THEN obs_freq ELSE <<>>

Assign(S) == [n \in Names |-> IF n \in S THEN writes[n] + 1 ELSE writes[n]]

---------------------------------------------------------------------------
(* Radio notebook: the formulas of the cells *)

\* lfir = sfr/kappa, for a kappa that is not zero
Lfir(s, kap) == NpDiv(s, kap)

\* lfir_sun = lfir/lsun
LfirSun(l) == NpDiv(l, lsun)

\* logco = (np.log10(lfir_sun)-0.53)/1.13
Logco(ls) == LogCO(NpLog10(ls))

\* lco_diff_units = 10**(logco)
LcoDiffUnits(lg) == Pow10(lg)

\* rest_frame*(1+redshift): the shift applied the wrong way
ObsFreqBlueshift(z) == [i \in 1..NLines |-> Mul(rest_frame[i], OnePlus(z))]

\* obs_freq = rest_frame/(1+redshift)
ObsFreq(z) == [i \in 1..NLines |-> NpDiv(rest_frame[i], OnePlus(z))]

\* lco_32 = lco_diff_units*0.6
Lco32(l) == Mul(l, Ratio32)

\* lco_32_lens = 4.3*lco_32
Lco32Lens(l) == Mul(Magnification, l)

\* lco_32_lens*freq1*((1+redshift)**3): the frequency not squared
AaLinearFreq(l, f, z) == Mul(Mul(l, f), Cube(OnePlus(z)))

\* aa = (lco_32_lens*freq1*freq1*((1+redshift)**3))
Aa(l, f, z) == Mul(Mul(Mul(l, f), f), Cube(OnePlus(z)))

\* bb = dl*dl*(3.25e7)
Bb(d) == Mul(Mul(d, d), SolomonConst)

\* flux_density = flux_s/200
FluxDensity(f) == NpDiv(f, VelocityDispersion)

\* mass_h2 = lco_diff_units*4
MassH2(l) == Mul(l, AlphaCO)

---------------------------------------------------------------------------
(* Radio notebook: the cells *)

Set(f, n, v) == [f EXCEPT ![n] = v]

\* "Run All" on the notebook as the user has edited it: the kernel keeps its
\* namespace, the run starts at the first code cell
StartRun ==
    /\ pc \in {"idle", "done", "aborted"}
    /\ run < MaxRuns
    /\ \E i \in Inputs : inp' = i
    /\ prev' = IF run = 0 THEN NoPrev
               ELSE [inp |-> inp, res |-> Result, obs |-> ResultObs,
                     pc |-> pc, err |-> err]
    /\ run' = run + 1
    /\ writes' = [n \in Names |-> 0]
    /\ err' = NoErr
    /\ pc' = "c1"
    /\ UNCHANGED <<caller, cosmo, ns, obs_freq, transitVars>>

\* from astropy.cosmology import WMAP9 as cosmo
Cell1WMAP9 ==
    /\ pc = "c1"
    /\ cosmo' = "WMAP9"
    /\ pc' = "c2"
    /\ UNCHANGED <<run, inp, caller, ns, obs_freq, err, writes, prev, transitVars>>

\* from astropy.cosmology import Planck15 as cosmo
Cell1 ==
    /\ pc = "c1"
    /\ cosmo' = "Planck15"
    /\ pc' = "c2"
    /\ UNCHANGED <<run, inp, caller, ns, obs_freq, err, writes, prev, transitVars>>

\* sfr = 30; kappa = 4.5e-44; lfir = sfr/kappa
Cell2 ==
    /\ pc = "c2"
    /\ LET n1 == Set(Set(ns, "sfr", inp.sfr), "kappa", inp.kappa)
       IN \/ /\ PyDivRaises(inp.sfr, inp.kappa)
             /\ ns' = n1
             /\ writes' = Assign({"sfr", "kappa"})
             /\ err' = [cell |-> 2, name |-> "lfir", type |-> "ZeroDivisionError"]
             /\ pc' = "aborted"
          \/ /\ ~PyDivRaises(inp.sfr, inp.kappa)
             /\ ns' = Set(n1, "lfir", Lfir(inp.sfr, inp.kappa))
             /\ writes' = Assign({"sfr", "kappa", "lfir"})
             /\ err' = err
             /\ pc' = "c3"
    /\ UNCHANGED <<run, inp, caller, cosmo, obs_freq, prev, transitVars>>

\* lsun = ...; lfir_sun = lfir/lsun; logco = ...; lco_diff_units = 10**(logco)
Cell3 ==
    /\ pc = "c3"
    /\ LET ls == LfirSun(ns["lfir"])
           lg == Logco(ls)
       IN ns' = [ns EXCEPT !["lsun"] = lsun, !["lfir_sun"] = ls,
                           !["logco"] = lg,
                           !["lco_diff_units"] = LcoDiffUnits(lg)]
    /\ writes' = Assign({"lsun", "lfir_sun", "logco", "lco_diff_units"})
    /\ pc' = "c4"
    /\ UNCHANGED <<run, inp, caller, cosmo, obs_freq, err, prev, transitVars>>

\* obs_freq extended by the new frequencies instead of rebuilt
Cell4Accumulate ==
    /\ pc = "c4"
    /\ ns' = Set(ns, "redshift", inp.redshift)
    /\ obs_freq' = obs_freq \o ObsFreq(inp.redshift)
    /\ writes' = Assign({"redshift", "obs_freq"})
    /\ pc' = "c5"
    /\ UNCHANGED <<run, inp, caller, cosmo, err, prev, transitVars>>

\* lines = ...; rest_frame = ...; redshift = 1.036; obs_freq = rest_frame/(1+redshift)
Cell4 ==
    /\ pc = "c4"
    /\ ns' = Set(ns, "redshift", inp.redshift)
    /\ obs_freq' = ObsFreq(inp.redshift)
    /\ writes' = Assign({"redshift", "obs_freq"})
    /\ pc' = "c5"
    /\ UNCHANGED <<run, inp, caller, cosmo, err, prev, transitVars>>

\* lco_32 = lco_diff_units*0.6
Cell5 ==
    /\ pc = "c5"
    /\ ns' = Set(ns, "lco_32", Lco32(ns["lco_diff_units"]))
    /\ writes' = Assign({"lco_32"})
    /\ pc' = "c6"
    /\ UNCHANGED <<run, inp, caller, cosmo, obs_freq, err, prev, transitVars>>

\* lco_32_lens = 4.3*lco_32
Cell6 ==
    /\ pc = "c6"
    /\ ns' = Set(ns, "lco_32_lens", Lco32Lens(ns["lco_32"]))
    /\ writes' = Assign({"lco_32_lens"})
    /\ pc' = "c7"
    /\ UNCHANGED <<run, inp, caller, cosmo, obs_freq, err, prev, transitVars>>

\* dl = (cosmo.luminosity_distance(redshift)).value; freq1 = obs_freq[2];
\* aa = ...; bb = ...; flux_s = aa/bb
Cell7 ==
    /\ pc = "c7"
    /\ LET d == LuminosityDistance(cosmo, ns["redshift"])
           f == obs_freq[LineIdx]
           a == Aa(ns["lco_32_lens"], f, ns["redshift"])
           b == Bb(d)
       IN ns' = [ns EXCEPT !["dl"] = d, !["freq1"] = f, !["aa"] = a,
                           !["bb"] = b, !["flux_s"] = NpDiv(a, b)]
    /\ writes' = Assign({"dl", "freq1", "aa", "bb", "flux_s"})
    /\ pc' = "c8"
    /\ UNCHANGED <<run, inp, caller, cosmo, obs_freq, err, prev, transitVars>>

\* flux_s = flux_s/200: the normalisation done in place
Cell8InPlace ==
    /\ pc = "c8"
    /\ LET v == FluxDensity(ns["flux_s"])
       IN ns' = [ns EXCEPT !["flux_s"] = v, !["flux_density"] = v]
    /\ writes' = Assign({"flux_s", "flux_density"})
    /\ pc' = "c9"
    /\ UNCHANGED <<run, inp, caller, cosmo, obs_freq, err, prev, transitVars>>

\* flux_density = flux_s/200
Cell8 ==
    /\ pc = "c8"
    /\ ns' = Set(ns, "flux_density", FluxDensity(ns["flux_s"]))
    /\ writes' = Assign({"flux_density"})
    /\ pc' = "c9"
    /\ UNCHANGED <<run, inp, caller, cosmo, obs_freq, err, prev, transitVars>>

\* mass_h2 = flux_s*4: the mass taken from the flux, not from L'_CO(1-0)
Cell9FromFlux ==
    /\ pc = "c9"
    /\ ns' = Set(ns, "mass_h2", MassH2(ns["flux_s"]))
    /\ writes' = Assign({"mass_h2"})
    /\ pc' = "done"
    /\ UNCHANGED <<run, inp, caller, cosmo, obs_freq, err, prev, transitVars>>

\* mass_h2 = lco_diff_units*4
Cell9 ==
    /\ pc = "c9"
    /\ ns' = Set(ns, "mass_h2", MassH2(ns["lco_diff_units"]))
    /\ writes' = Assign({"mass_h2"})
    /\ pc' = "done"
    /\ UNCHANGED <<run, inp, caller, cosmo, obs_freq, err, prev, transitVars>>

---------------------------------------------------------------------------
(* Transit notebook, cell 2 *)

params == <<"P_p1", "t0_p1", "r1_p1", "r2_p1", "q1_EUL", "q2_EUL", "ecc_p1",
            "omega_p1", "a_p1", "mdilution_EUL", "mflux_EUL", "sigma_w_EUL">>
dists == <<"fixed", "normal", "uniform", "uniform", "uniform", "uniform",
           "fixed", "fixed", "uniform", "fixed", "normal", "loguniform">>

\* a hyperparameter is a bare float or a list of two floats
Scalar(x) == [scalar |-> TRUE, v |-> <<x>>]
Pair(x, y) == [scalar |-> FALSE, v |-> <<x, y>>]
hyperps == <<Scalar("1.7497798"), Pair("58423.10", "0.1"), Pair("0.", "1"),
             Pair("0.", "1."), Pair("0.", "1."), Pair("0.", "1."),
             Scalar("0.0"), Scalar("90."), Pair("1.", "100."), Scalar("1.0"),
             Pair("0.", "0.1"), Pair("0.1", "1000.")>>

Min(a, b) == IF a < b THEN a ELSE b
\* one of the three lists an item short
ZipLenShort == Min(Len(params), Min(Len(dists), Len(hyperps))) - 1

\* zip() stops with its shortest argument
ZipLen == Min(Len(params), Min(Len(dists), Len(hyperps)))

NoHyper == [scalar |-> TRUE, v |-> <<>>]
EmptyEntry == [keys |-> {}, distribution |-> "", hyperparameters |-> NoHyper]
NoCur == [param |-> "", dist |-> "", hyperp |-> NoHyper]
EmptyDict == [n \in {} |-> EmptyEntry]

\* rows (time, flux, flux error) a data file may hold
Rows == {<<1, 100, 1>>, <<2, 99, 1>>, <<3, 100, 2>>}
DataFiles == UNION {[1..n -> Rows] : n \in 1..MaxRows}
Column(file, c) == [r \in 1..Len(file) |-> file[r][c]]

\* tt1, fl1, fle1 = np.loadtxt(...); tts['EUL'], ... = tt1, fl1, fle1;
\* pri1 = {}; params = ...; dists = ...; hyperps = ...
T_Load ==
    /\ tpc = "load"
    /\ \E file \in DataFiles :
          data' = [tts |-> Column(file, 1), fls |-> Column(file, 2),
                   fles |-> Column(file, 3)]
    /\ pri1' = EmptyDict
    /\ idx' = 0
    /\ cur' = NoCur
    /\ tpc' = "zip"
    /\ UNCHANGED radioVars

\* for param, dist, hyperp in zip(params, dists, hyperps):
T_Zip ==
    /\ tpc = "zip"
    /\ \/ /\ idx < ZipLen
          /\ cur' = [param |-> params[idx + 1], dist |-> dists[idx + 1],
                     hyperp |-> hyperps[idx + 1]]
          /\ idx' = idx + 1
          /\ tpc' = "new"
       \/ /\ idx >= ZipLen
          /\ tpc' = "fit"
          /\ UNCHANGED <<idx, cur>>
    /\ UNCHANGED <<data, pri1, radioVars>>

\* pri1[param] = {}
T_New ==
    /\ tpc = "new"
    /\ pri1' = [n \in DOMAIN pri1 \cup {cur.param} |->
                    IF n = cur.param THEN EmptyEntry ELSE pri1[n]]
    /\ tpc' = "fill"
    /\ UNCHANGED <<data, idx, cur, radioVars>>

\* pri1[param]['distribution'], pri1[param]['hyperparameters'] = dist, hyperp
T_Fill ==
    /\ tpc = "fill"
    /\ pri1' = [pri1 EXCEPT ![cur.param] =
                    [keys |-> @.keys \cup {"distribution", "hyperparameters"},
                     distribution |-> cur.dist,
                     hyperparameters |-> cur.hyperp]]
    /\ tpc' = "zip"
    /\ UNCHANGED <<data, idx, cur, radioVars>>

\* dataset = jl.load(priors=pri1, ...); rels = dataset.fit(): the external
\* fitter reads pri1 and the data and leaves both as they are
T_Fit ==
    /\ tpc = "fit"
    /\ tpc' = "done"
    /\ UNCHANGED <<data, idx, cur, pri1, radioVars>>

---------------------------------------------------------------------------
(* Specifications *)

Init ==
    /\ pc = "idle"
    /\ run = 0
    /\ inp = NoInput
    /\ caller \in Callers
    /\ cosmo = ""
    /\ ns = [n \in Scalars |-> Unbound]
    /\ obs_freq = <<>>
    /\ err = NoErr
    /\ writes = [n \in Names |-> 0]
    /\ prev = NoPrev
    /\ tpc = "load"
    /\ data = [tts |-> <<>>, fls |-> <<>>, fles |-> <<>>]
    /\ idx = 0
    /\ cur = NoCur
    /\ pri1 = EmptyDict

Next ==
    \/ StartRun
    \/ Cell1
    \/ Cell2
    \/ Cell3
    \/ Cell4
    \/ Cell5
    \/ Cell6
    \/ Cell7
    \/ Cell8
    \/ Cell9

TransitNext ==
    \/ T_Load
    \/ T_Zip
    \/ T_New
    \/ T_Fill
    \/ T_Fit

\* the radio notebook, run MaxRuns times in one kernel
Spec == Init /\ [][Next]_vars

\* cell 2 of the transit notebook
SpecTransit == Init /\ [][TransitNext]_vars

---------------------------------------------------------------------------
(* Properties *)

Written(n) == writes[n] > 0
Finished == pc \in {"done", "aborted"}
Val(n) == IF n = "obs_freq" THEN obs_freq ELSE ns[n]

\* the derived quantities: L_IR, L'_CO(1-0), the observed frequencies,
\* L'_CO(3-2), the lensed luminosity, S*dV, S, M_H2
Derived == {"lfir", "lco_diff_units", "obs_freq", "lco_32", "lco_32_lens",
            "flux_s", "flux_density", "mass_h2"}
DerivedScalars == Derived \ {"obs_freq"}

NotANumber(v) == v.k \in {"nan", "pinf", "ninf"}

\* C1: every stage that needs a positive input raises instead of producing a
\* value (L_IR exists only for sfr >= 0 and kappa > 0, L'_CO(1-0) only for
\* L_IR > 0, S*dV only for a distance > 0), and no derived quantity is ever
\* NaN or infinite.
C1_DomainErrorNotNaN ==
    /\ Written("lfir") => inp.sfr.k \in {"zero", "pos"} /\ inp.kappa.k = "pos"
    /\ Written("lco_diff_units") => ns["lfir"].k = "pos"
    /\ Written("flux_s") => ns["dl"].k = "pos"
    /\ \A n \in DerivedScalars : Written(n) => ~NotANumber(ns[n])
    /\ Written("obs_freq") =>
          \A i \in 1..Len(obs_freq) : ~NotANumber(obs_freq[i])

\* the names the cells after cell c assign
AssignedAfter(c) ==
    IF c = 2 THEN Names \ {"sfr", "kappa", "lfir"}
    ELSE IF c = 3 THEN {"redshift", "obs_freq", "lco_32", "lco_32_lens", "dl",
                        "freq1", "aa", "bb", "flux_s", "flux_density", "mass_h2"}
    ELSE {}

\* C2: a failing stage aborts the run, nothing of a later stage is computed,
\* and the error names the failing quantity; with sfr = 0 stage 1 yields
\* L_IR = 0 and the run aborts at stage 2 (cell 3, lco_diff_units), so that
\* no flux density and no H2 mass is produced.
C2_AbortAtFirstFailure ==
    /\ pc = "aborted" =>
          /\ err.cell > 0
          /\ \A n \in AssignedAfter(err.cell) : ~Written(n)
    /\ (inp.sfr.k = "zero" /\ Written("lfir")) =>
          /\ ns["lfir"].k = "zero"
          /\ pc \in {"c3", "aborted"}
          /\ pc = "aborted" => err.name = "lco_diff_units"
          /\ ~Written("flux_s") /\ ~Written("flux_density")
          /\ ~Written("mass_h2")

\* what each derived quantity reads
Deps(q) ==
    IF q = "lco_diff_units" THEN {"lfir"}
    ELSE IF q \in {"lco_32", "mass_h2"} THEN {"lco_diff_units"}
    ELSE IF q = "lco_32_lens" THEN {"lco_32"}
    ELSE IF q = "flux_s" THEN {"lco_32_lens", "obs_freq"}
    ELSE IF q = "flux_density" THEN {"flux_s"}
    ELSE {}

\* C3: within a run every derived quantity is assigned once and keeps its
\* value from then on, and when it is assigned the quantities it reads have
\* been assigned in this run already.
C3_AssignedOnceInOrder ==
    /\ [](pc = "done" => \A q \in Derived : writes[q] = 1)
    /\ [][run' = run =>
           \A q \in Derived :
              /\ Written(q) => writes'[q] = writes[q] /\ Val(q)' = Val(q)
              /\ writes'[q] > writes[q] =>
                    /\ writes'[q] = 1
                    /\ \A d \in Deps(q) : Written(d)]_vars

C3_Witness ==
    /\ run = 2
    /\ pc = "done"
    /\ \A q \in Derived : writes[q] = 1
    /\ ns["flux_density"].k = "pos"

\* C4 as claimed: the observed frequency that enters the flux density is the
\* one of the line the caller chose.
C4_CallerChoosesLine ==
    Written("flux_s") => ns["freq1"] = obs_freq[caller.line]

\* C4 as amended: the observed frequency of every line of the table is
\* rest/(1+z), and the line that enters the flux density is always CO(3-2),
\* with the CO(3-2) ratio 0.6, whichever line the caller would choose.
C4_Line32Fixed ==
    /\ Written("obs_freq") =>
          /\ Len(obs_freq) = NLines
          /\ \A i \in 1..NLines :
                /\ obs_freq[i].k = "pos"
                /\ obs_freq[i].e = rest_frame[i].e - OnePlus(inp.redshift).e
    /\ Written("flux_s") =>
          /\ ns["freq1"] = obs_freq[LineIdx]
          /\ lines[LineIdx] = "CO32"
          /\ ns["lco_32"] = Mul(ns["lco_diff_units"], Ratio32)
          /\ ns["aa"] = Aa(ns["lco_32_lens"], obs_freq[LineIdx], inp.redshift)

C4_Witness ==
    /\ pc = "done"
    /\ caller.line = 5
    /\ ns["freq1"] = obs_freq[LineIdx]
    /\ ns["freq1"] # obs_freq[caller.line]
    /\ ns["flux_s"].k = "pos"

\* C5: M_H2 is the unlensed L'_CO(1-0) of cell 3 times alpha_CO, and two runs
\* that agree on sfr and kappa (L_sun and alpha_CO are fixed) give the same
\* M_H2 whatever their redshifts, and so their distances and frequencies.
C5_MassFromUnlensedCO10 ==
    /\ Written("mass_h2") =>
          /\ ns["mass_h2"] = Mul(ns["lco_diff_units"], AlphaCO)
          /\ ns["lco_diff_units"].k = "pos" =>
                /\ ns["mass_h2"].k = "pos"
                /\ ns["mass_h2"].e = ns["logco"].e + AlphaCO.e
    /\ (run >= 2 /\ Finished /\ prev.inp.sfr = inp.sfr
            /\ prev.inp.kappa = inp.kappa) =>
          Result["mass_h2"] = prev.res["mass_h2"]

C5_Witness ==
    /\ run = 2
    /\ pc = "done"
    /\ prev.inp.sfr = inp.sfr
    /\ prev.inp.kappa = inp.kappa
    /\ prev.inp.redshift # inp.redshift
    /\ prev.res["flux_s"] # ns["flux_s"]
    /\ ns["mass_h2"] = Pos(10081)
    /\ prev.res["mass_h2"] = Pos(10081)

\* C6: S*dV = L_lensed * freq_obs^2 * (1+z)^3 / (3.25e7 * distance^2) with
\* L_lensed = L_CO10 * ratio * magnification, freq_obs the observed frequency
\* of the selected line at the redshift z of the (1+z)^3 factor, and
\* distance the luminosity distance at that same z; S = S*dV / dispersion.
C6_FluxFormula ==
    LET z == inp.redshift
        L == Mul(Mul(ns["lco_diff_units"], Ratio32), Magnification)
        f == NpDiv(rest_frame[LineIdx], OnePlus(z))
        d == LuminosityDistance(cosmo, z)
    IN /\ Written("flux_s") =>
             /\ ns["lco_32_lens"] = L
             /\ ns["flux_s"] = NpDiv(Mul(Mul(L, Mul(f, f)), Cube(OnePlus(z))),
                                     Mul(SolomonConst, Mul(d, d)))
             /\ (L.k = "pos" /\ d.k = "pos") =>
                   /\ ns["flux_s"].k = "pos"
                   /\ ns["flux_s"].e =
                         (ns["logco"].e + Ratio32.e + Magnification.e)
                         + 2 * (rest_frame[LineIdx].e - OnePlus(z).e)
                         + 3 * OnePlus(z).e
                         - (SolomonConst.e + 2 * d.e)
       /\ Written("flux_density") =>
             /\ ns["flux_density"] = NpDiv(ns["flux_s"], VelocityDispersion)
             /\ ns["flux_s"].k = "pos" =>
                   ns["flux_density"].e = ns["flux_s"].e - VelocityDispersion.e

\* the scenario of the notebook: sfr = 30, z = 1.036 gives S*dV = 1.15 Jy km/s
\* and S = 5.8e-3 Jy
C6_Witness ==
    /\ pc = "done"
    /\ inp = [sfr |-> Pos(1477), kappa |-> Pos(-43347), redshift |-> Lin(1036)]
    /\ ns["lco_32_lens"] = Pos(9890)
    /\ ns["freq1"] = Pos(2230)
    /\ ns["flux_s"] = Pos(63)
    /\ ns["flux_density"] = Pos(-2238)

C8_RerunSameResults ==
    (run >= 2 /\ Finished /\ inp = prev.inp) =>
        /\ Result = prev.res
        /\ ResultObs = prev.obs
        /\ pc = prev.pc
        /\ err = prev.err

C8_Witness ==
    /\ run = 2
    /\ pc = "done"
    /\ inp = prev.inp
    /\ ns["flux_density"].k = "pos"
    /\ prev.res["flux_density"] = ns["flux_density"]
    /\ Len(prev.obs) = NLines

BothMasses ==
    /\ run >= 2
    /\ Written("mass_h2")
    /\ prev.res["lfir"].k = "pos"
    /\ ns["lfir"].k = "pos"
    /\ prev.res["mass_h2"].k = "pos"
    /\ ns["mass_h2"].k = "pos"

ParamSet == {params[i] : i \in 1..Len(params)}
WellFormed(entry) ==
    /\ entry.keys = {"distribution", "hyperparameters"}
    /\ entry.distribution \in {"fixed", "normal", "uniform", "loguniform"}
    /\ entry.distribution = "fixed" =>
          entry.hyperparameters.scalar /\ Len(entry.hyperparameters.v) = 1
    /\ entry.distribution # "fixed" =>
          ~entry.hyperparameters.scalar /\ Len(entry.hyperparameters.v) = 2

\* C10: after the loop pri1 has one entry per parameter name (12), the entry
\* of params[i] holds dists[i] and hyperps[i], and every entry is well
\* formed: a scalar for 'fixed', a pair for the other distributions.
C10_PriorDictionary ==
    tpc \in {"fit", "done"} =>
        /\ DOMAIN pri1 = ParamSet
        /\ Cardinality(DOMAIN pri1) = 12
        /\ Len(params) = 12 /\ Len(dists) = 12 /\ Len(hyperps) = 12
        /\ \A i \in 1..Len(params) :
              /\ pri1[params[i]].distribution = dists[i]
              /\ pri1[params[i]].hyperparameters = hyperps[i]
        /\ \A n \in DOMAIN pri1 : WellFormed(pri1[n])

C10_Witness ==
    /\ tpc = "done"
    /\ idx = 12
    /\ pri1["sigma_w_EUL"].distribution = "loguniform"
    /\ pri1["P_p1"].hyperparameters = Scalar("1.7497798")
    /\ Len(data.tts) = 2

====
